---- MODULE Spec2Model ----
(***************************************************************************)
(* Model of streamlit_app.py: the CABW preparation checklist.             *)
(*                                                                         *)
(* The program keeps all of its state in st.session_state: the manual     *)
(* lists (data), the anchor date (auth_date), the completion flags (the   *)
(* "done-<key>" entries), the current page (page, nav).  Every user       *)
(* interaction reruns main() from top to bottom.                          *)
(*                                                                         *)
(* Text is written in ASCII: "Antes da Missao" stands for the page the    *)
(* source spells with a tilde, "Ferias" for the accented name, and so on. *)
(* A task title is represented by the row of the table it comes from.     *)
(***************************************************************************)
EXTENDS Integers, Sequences, FiniteSets, TLC

VARIABLES
    data,       \* st.session_state.data: category name -> sequence of manual tasks
    auth_date,  \* st.session_state.auth_date: None or a date
    flags,      \* the other entries of st.session_state written by _set_flag / import
    page,       \* st.session_state.page
    nav,        \* st.session_state.nav
    up,         \* the file held by the st.file_uploader widget (None or its content)
    view        \* what the last call put on the screen, and the exception it raised

vars == <<data, auth_date, flags, page, nav, up, view>>

-----------------------------------------------------------------------------
(* Python values.  None and date objects; JSON scalars after json.loads.   *)

None == [t |-> "None"]

PyBool(b) == [t |-> "bool", v |-> b]

PyStr(s) == [t |-> "str", s |-> s]

PyInt(n) == [t |-> "int", n |-> n]

\* A non-empty JSON array, where the program expects something else.
PyList == [t |-> "list"]

\* A mapping (a JSON object / a dict) with entries m.
PyDict(m) == [t |-> "dict", m |-> m]

\* A field that the JSON object does not have.
Missing == [t |-> "missing"]

\* bool(x) for the values above.
Truthy(x) ==
    CASE x.t = "None" -> FALSE
      [] x.t = "bool" -> x.v
      [] x.t = "str"  -> x.s # <<>>
      [] x.t = "int"  -> x.n # 0
      [] x.t = "list" -> TRUE
      [] x.t = "dict" -> DOMAIN x.m # {}
      [] OTHER        -> TRUE

-----------------------------------------------------------------------------
(* datetime.date and timedelta arithmetic (the proleptic Gregorian         *)
(* calendar of the standard library).                                      *)

MkDate(y, m, d) == [t |-> "date", year |-> y, month |-> m, day |-> d]

is_leap(y) == y % 4 = 0 /\ (y % 100 # 0 \/ y % 400 = 0)

DAYS_IN_MONTH == <<31, 28, 31, 30, 31, 30, 31, 31, 30, 31, 30, 31>>

days_in_month(y, m) == IF m = 2 /\ is_leap(y) THEN 29 ELSE DAYS_IN_MONTH[m]

DAYS_BEFORE_MONTH == <<0, 31, 59, 90, 120, 151, 181, 212, 243, 273, 304, 334>>

days_before_month(y, m) ==
    DAYS_BEFORE_MONTH[m] + (IF m > 2 /\ is_leap(y) THEN 1 ELSE 0)

days_before_year(y) ==
    365 * (y - 1) + ((y - 1) \div 4) - ((y - 1) \div 100) + ((y - 1) \div 400)

\* date.toordinal(): 1 for 0001-01-01.
toordinal(dt) ==
    days_before_year(dt.year) + days_before_month(dt.year, dt.month) + dt.day

\* date.fromordinal(n), as _ord2ymd computes it, one step per definition:
\* the month estimate is corrected when it overshoots
ord2ymd_day(year, leapyear, n, month, preceding) ==
    IF preceding > n
    THEN MkDate(year, month - 1,
                n - (preceding - (DAYS_IN_MONTH[month - 1]
                                    + (IF month - 1 = 2 /\ leapyear THEN 1 ELSE 0))) + 1)
    ELSE MkDate(year, month, n - preceding + 1)

ord2ymd_month(year, leapyear, n, month) ==
    ord2ymd_day(year, leapyear, n, month,
                DAYS_BEFORE_MONTH[month] + (IF month > 2 /\ leapyear THEN 1 ELSE 0))

ord2ymd_year(year, n100, n4, n1, n) ==
    IF n1 = 4 \/ n100 = 4
    THEN MkDate(year - 1, 12, 31)
    ELSE ord2ymd_month(year, n1 = 3 /\ (n4 # 24 \/ n100 = 3), n, (n + 50) \div 32)

ord2ymd_cycles(n400, n100, n4, n1, n) ==
    ord2ymd_year(n400 * 400 + 1 + n100 * 100 + n4 * 4 + n1, n100, n4, n1, n)

ord2ymd_4(n400, n100, n) ==
    ord2ymd_cycles(n400, n100, n \div 1461, (n % 1461) \div 365, (n % 1461) % 365)

ord2ymd_100(n400, n) == ord2ymd_4(n400, n \div 36524, n % 36524)

fromordinal(n) == ord2ymd_100((n - 1) \div 146097, (n - 1) % 146097)

\* the offset added instead of subtracted
DatePlusDays(dt, offset) == fromordinal(toordinal(dt) + offset)

\* auth_date - timedelta(days=offset)
DateMinusDays(dt, offset) == fromordinal(toordinal(dt) - offset)

-----------------------------------------------------------------------------
(* Text formatting.  A key is a string; an ISO date is a sequence of      *)
(* characters so that it can be parsed back position by position.          *)

DIGITS == <<"0", "1", "2", "3", "4", "5", "6", "7", "8", "9">>

RECURSIVE IntStr(_)
IntStr(n) == IF n < 10 THEN DIGITS[n + 1]
             ELSE IntStr(n \div 10) \o DIGITS[(n % 10) + 1]

\* f"{i:02d}": zero-padded to at least two digits.
Format02d(i) == IF i < 10 THEN "0" \o IntStr(i) ELSE IntStr(i)

RECURSIVE DigitChars(_, _)
\* the decimal digits of n, zero-padded to at least w characters
DigitChars(n, w) ==
    IF n < 10 /\ w <= 1 THEN <<DIGITS[n + 1]>>
    ELSE Append(DigitChars(n \div 10, w - 1), DIGITS[(n % 10) + 1])

\* isoformat with month and day not padded ("%04d-%d-%d")
isoformat_unpadded(dt) ==
    DigitChars(dt.year, 4) \o <<"-">> \o DigitChars(dt.month, 1)
        \o <<"-">> \o DigitChars(dt.day, 1)

\* date.isoformat(): "%04d-%02d-%02d"
isoformat(dt) ==
    DigitChars(dt.year, 4) \o <<"-">> \o DigitChars(dt.month, 2)
        \o <<"-">> \o DigitChars(dt.day, 2)

DigitValue(c) == CHOOSE k \in 0..9 : DIGITS[k + 1] = c

IsDigit(c) == \E k \in 1..10 : DIGITS[k] = c

RECURSIVE CharsToInt(_)
CharsToInt(cs) ==
    IF cs = <<>> THEN 0
    ELSE 10 * CharsToInt(SubSeq(cs, 1, Len(cs) - 1)) + DigitValue(cs[Len(cs)])

\* date.fromisoformat(s) for the YYYY-MM-DD form: the date, or "ValueError".
ValueError == [t |-> "ValueError"]

\* date(y, m, d): the constructor checks the fields
date_new(y, m, d) ==
    IF /\ y >= 1
       /\ m >= 1 /\ m <= 12
       /\ d >= 1 /\ d <= days_in_month(y, IF m >= 1 /\ m <= 12 THEN m ELSE 1)
    THEN MkDate(y, m, d)
    ELSE ValueError

fromisoformat(cs) ==
    IF /\ Len(cs) = 10
       /\ cs[5] = "-" /\ cs[8] = "-"
       /\ \A i \in {1, 2, 3, 4, 6, 7, 9, 10} : IsDigit(cs[i])
    THEN date_new(CharsToInt(SubSeq(cs, 1, 4)), CharsToInt(SubSeq(cs, 6, 7)),
                  CharsToInt(SubSeq(cs, 9, 10)))
    ELSE ValueError

-----------------------------------------------------------------------------
(* Pages and the session state.                                            *)

PAGES == <<"Antes da Missao", "INSPSAU (Inspecao de Saude)", "Pagamento",
           "RAIRE", "Passaporte e Visto">>

PageSet == {PAGES[i] : i \in 1..Len(PAGES)}

\* PAGES.index(p); the caller has p in PAGES (list.index raises otherwise).
PagesIndex(p) == CHOOSE i \in 1..Len(PAGES) : PAGES[i] = p

\* The session state as one value, for the operators below.
Session == [data |-> data, auth_date |-> auth_date, flags |-> flags,
            page |-> page, nav |-> nav]

\* _init_state
InitState == [data      |-> [p \in PageSet |-> <<>>],
              page      |-> PAGES[1],
              nav       |-> PAGES[1],
              auth_date |-> None,
              flags     |-> <<>>]

\* dict.setdefault(k, []) on a mapping of lists
SetDefault(d, k) == IF k \in DOMAIN d THEN d ELSE d @@ (k :> <<>>)

\* _get_tasks(page): the list, and the mapping after setdefault
get_tasks(ss, p) == SetDefault(ss.data, p)[p]

\* number of tasks t with t.get("done") truthy
CountDone(tasks) == Cardinality({i \in 1..Len(tasks) : tasks[i].done})

-----------------------------------------------------------------------------
(* Completion flags.                                                       *)

FlagName(key) == "done-" \o key

\* _get_flag: bool(st.session_state.get(f"done-{key}", False))
get_flag(ss, key) ==
    IF FlagName(key) \in DOMAIN ss.flags THEN Truthy(ss.flags[FlagName(key)])
    ELSE FALSE

\* st.session_state[k] = v
SetItem(f, k, v) == [x \in (DOMAIN f) \cup {k} |-> IF x = k THEN v ELSE f[x]]

\* the value stored under the bare key, without the "done-" prefix
set_flag_bare_key(ss, key, val) ==
    [ss EXCEPT !.flags = SetItem(ss.flags, key, PyBool(val))]

\* _set_flag
set_flag(ss, key, val) ==
    [ss EXCEPT !.flags = SetItem(ss.flags, FlagName(key), PyBool(val))]

-----------------------------------------------------------------------------
(* The task tables: the offsets in days, in table order.                   *)

FERIAS_OFFSETS == <<100, 30, 1>>

PASSAPORTE_DEFS == <<180, 155, 150, 150, 150,
                     130, 130, 130, 130, 130, 130, 130, 130, 130, 130, 130,
                     120, 100, 100, 100, 100, 100, 70>>

INSPSAU_DEFS == <<180, 120, 30>>

PAGAMENTO_DEFS == <<90, 60, 60, 60, 60, 60, 10, 10, 10, 10, 5>>

RAIRE_DEFS == <<30, -10, -15, -20, -30>>

Task(title, deadline, key) == [title |-> title, deadline |-> deadline, key |-> key]

\* "ferias-1", "ferias-2", "ferias-3": written out in the source
FeriasKey(i) == "ferias-" \o IntStr(i)

\* the prefix of another catalog, pasted
PassKey_pay(i) == "pay-" \o Format02d(i)

PassKey(i) == "pass-" \o Format02d(i)

InspKey(i) == "insp-" \o Format02d(i)

PayKey(i) == "pay-" \o Format02d(i)

RaireKey(i) == "raire-" \o Format02d(i)

get_ferias_tasks(ad) ==
    IF ~Truthy(ad) THEN <<>>
    ELSE [i \in 1..Len(FERIAS_OFFSETS) |->
            Task(i, DateMinusDays(ad, FERIAS_OFFSETS[i]), FeriasKey(i))]

get_passaporte_tasks(ad) ==
    IF ~Truthy(ad) THEN <<>>
    ELSE [i \in 1..Len(PASSAPORTE_DEFS) |->
            Task(i, DateMinusDays(ad, PASSAPORTE_DEFS[i]), PassKey(i))]

get_inspsau_tasks(ad) ==
    IF ~Truthy(ad) THEN <<>>
    ELSE [i \in 1..Len(INSPSAU_DEFS) |->
            Task(i, DateMinusDays(ad, INSPSAU_DEFS[i]), InspKey(i))]

get_pagamento_tasks(ad) ==
    IF ~Truthy(ad) THEN <<>>
    ELSE [i \in 1..Len(PAGAMENTO_DEFS) |->
            Task(i, DateMinusDays(ad, PAGAMENTO_DEFS[i]), PayKey(i))]

get_raire_tasks(ad) ==
    IF ~Truthy(ad) THEN <<>>
    ELSE [i \in 1..Len(RAIRE_DEFS) |->
            Task(i, DateMinusDays(ad, RAIRE_DEFS[i]), RaireKey(i))]

\* the dates picked in the date input
D1 == MkDate(2025, 6, 1)

D2 == MkDate(2024, 3, 10)

Dates == {D1, D2}

\* The lists of each date picked, computed once from the functions above; a
\* call _get_<x>_tasks(ad) of the program reads them here.
Listed(tasks) == SubSeq(tasks, 1, Len(tasks))

FeriasTable == [d \in Dates |-> Listed(get_ferias_tasks(d))] @@ <<>>

PassaporteTable == [d \in Dates |-> Listed(get_passaporte_tasks(d))] @@ <<>>

InspsauTable == [d \in Dates |-> Listed(get_inspsau_tasks(d))] @@ <<>>

PagamentoTable == [d \in Dates |-> Listed(get_pagamento_tasks(d))] @@ <<>>

RaireTable == [d \in Dates |-> Listed(get_raire_tasks(d))] @@ <<>>

ferias_tasks(ad) ==
    IF ad \in Dates THEN FeriasTable[ad] ELSE get_ferias_tasks(ad)

passaporte_tasks(ad) ==
    IF ad \in Dates THEN PassaporteTable[ad] ELSE get_passaporte_tasks(ad)

inspsau_tasks(ad) ==
    IF ad \in Dates THEN InspsauTable[ad] ELSE get_inspsau_tasks(ad)

pagamento_tasks(ad) ==
    IF ad \in Dates THEN PagamentoTable[ad] ELSE get_pagamento_tasks(ad)

raire_tasks(ad) ==
    IF ad \in Dates THEN RaireTable[ad] ELSE get_raire_tasks(ad)

\* (done, total) of a resolved list against the flags
CountFlags(ss, tasks) ==
    <<Cardinality({i \in 1..Len(tasks) : get_flag(ss, tasks[i].key)}), Len(tasks)>>

ferias_progress(ss, ad) == CountFlags(ss, ferias_tasks(ad))

passaporte_progress(ss, ad) == CountFlags(ss, passaporte_tasks(ad))

inspsau_progress(ss, ad) == CountFlags(ss, inspsau_tasks(ad))

\* the total taken from the table instead of the resolved list
pagamento_progress_table(ss, ad) ==
    <<CountFlags(ss, pagamento_tasks(ad))[1], Len(PAGAMENTO_DEFS)>>

pagamento_progress(ss, ad) == CountFlags(ss, pagamento_tasks(ad))

raire_progress(ss, ad) == CountFlags(ss, raire_tasks(ad))

-----------------------------------------------------------------------------
(* Progress ratios.  A ratio done/total is kept as the fraction in lowest  *)
(* terms <<num, den>>; 0.0 is <<0, 1>>.                                    *)

RECURSIVE GCD(_, _)
GCD(a, b) == IF b = 0 THEN a ELSE GCD(b, a % b)

\* an empty scope reported as complete
Ratio_empty_full(done, total) ==
    IF total = 0 THEN <<1, 1>>
    ELSE <<done \div GCD(done, total), total \div GCD(done, total)>>

\* (done / total) if total else 0.0
Ratio(done, total) ==
    IF total = 0 THEN <<0, 1>>
    ELSE <<done \div GCD(done, total), total \div GCD(done, total)>>

RECURSIVE SumManual(_, _)
\* the loop over PAGES of _overall_progress: <<done, total>> of pages 1..n
SumManual(ss, n) ==
    IF n = 0 THEN <<0, 0>>
    ELSE LET rest  == SumManual(ss, n - 1)
             tasks == get_tasks(ss, PAGES[n])
         IN  <<rest[1] + CountDone(tasks), rest[2] + Len(tasks)>>

\* done += d; total += t
AddCounts(a, b) == <<a[1] + b[1], a[2] + b[2]>>

\* the block of one catalog left out of the sum
overall_counts_no_raire(ss) ==
    IF Truthy(ss.auth_date)
    THEN AddCounts(SumManual(ss, Len(PAGES)),
         AddCounts(ferias_progress(ss, ss.auth_date),
         AddCounts(passaporte_progress(ss, ss.auth_date),
         AddCounts(inspsau_progress(ss, ss.auth_date),
                   pagamento_progress(ss, ss.auth_date)))))
    ELSE SumManual(ss, Len(PAGES))

\* <<done, total>> as _overall_progress accumulates them
overall_counts(ss) ==
    IF Truthy(ss.auth_date)
    THEN AddCounts(SumManual(ss, Len(PAGES)),
         AddCounts(ferias_progress(ss, ss.auth_date),
         AddCounts(passaporte_progress(ss, ss.auth_date),
         AddCounts(inspsau_progress(ss, ss.auth_date),
         AddCounts(pagamento_progress(ss, ss.auth_date),
                   raire_progress(ss, ss.auth_date))))))
    ELSE SumManual(ss, Len(PAGES))

RatioOf(c) == Ratio(c[1], c[2])

overall_progress(ss) == RatioOf(overall_counts(ss))

\* no page is filled in
FillPages_none(d, n) == d

\* the session after _overall_progress: _get_tasks has filled in missing pages
RECURSIVE FillPages(_, _)
FillPages(d, n) == IF n = 0 THEN d ELSE SetDefault(FillPages(d, n - 1), PAGES[n])

-----------------------------------------------------------------------------
(* Export and import.                                                      *)

\* the keys a snapshot may carry besides the catalog keys
UNKNOWN_KEY == "zz-01"

CatalogKeys ==
    {FeriasKey(i) : i \in 1..Len(FERIAS_OFFSETS)}
      \cup {PassKey(i) : i \in 1..Len(PASSAPORTE_DEFS)}
      \cup {InspKey(i) : i \in 1..Len(INSPSAU_DEFS)}
      \cup {PayKey(i) : i \in 1..Len(PAGAMENTO_DEFS)}
      \cup {RaireKey(i) : i \in 1..Len(RAIRE_DEFS)}

KeyUniverse == CatalogKeys \cup {UNKNOWN_KEY}

DoneNames == {FlagName(k) : k \in KeyUniverse}

\* k.startswith("done-"), for the session keys of the model
StartsWithDone(k) == k \in DoneNames

\* json.dumps / json.loads of a scalar: None <-> null, True/False <-> true/false
JsonOfPy(v) ==
    CASE v.t = "None" -> [j |-> "null"]
      [] v.t = "bool" -> [j |-> IF v.v THEN "true" ELSE "false"]
      [] v.t = "str"  -> [j |-> "string", s |-> v.s]
      [] v.t = "int"  -> [j |-> "number", n |-> v.n]

PyOfJson(x) ==
    CASE x.j = "null"   -> None
      [] x.j = "true"   -> PyBool(TRUE)
      [] x.j = "false"  -> PyBool(FALSE)
      [] x.j = "string" -> PyStr(x.s)
      [] x.j = "number" -> PyInt(x.n)

JsonOfTask(t) == [title |-> t.title, done |-> JsonOfPy(PyBool(t.done)), notes |-> t.notes]

TaskOfJson(x) == [title |-> x.title, done |-> Truthy(PyOfJson(x.done)), notes |-> x.notes]

\* the payload of export_json_button, after json.dumps
export_json(ss) ==
    [lists     |-> [c \in DOMAIN ss.data |->
                      [i \in 1..Len(ss.data[c]) |-> JsonOfTask(ss.data[c][i])]],
     auth_date |-> JsonOfPy(IF Truthy(ss.auth_date)
                            THEN PyStr(isoformat(ss.auth_date)) ELSE None),
     extras    |-> [k \in {x \in DOMAIN ss.flags : StartsWithDone(x)} |->
                      JsonOfPy(ss.flags[k])]]

\* json.loads of an exported document: what import_json_uploader then reads
json_loads(doc) ==
    [top       |-> "dict",
     lists     |-> PyDict([c \in DOMAIN doc.lists |->
                      [i \in 1..Len(doc.lists[c]) |-> TaskOfJson(doc.lists[c][i])]]),
     auth_date |-> PyOfJson(doc.auth_date),
     extras    |-> PyDict([k \in DOMAIN doc.extras |-> PyOfJson(doc.extras[k])])]

\* st.session_state[k] = v, for the keys of the model
SessionSet(ss, k, v) ==
    IF k = "page" THEN [ss EXCEPT !.page = v.s]
    ELSE [ss EXCEPT !.flags = SetItem(ss.flags, k, v)]

RECURSIVE ApplyExtras(_, _, _)
\* for k, v in extras.items(): st.session_state[k] = v
ApplyExtras(ss, m, keys) ==
    IF keys = {} THEN ss
    ELSE LET k == CHOOSE x \in keys : TRUE
         IN  ApplyExtras(SessionSet(ss, k, m[k]), m, keys \ {k})

\* dict.get(field, default)
Get(v, default) == IF v.t = "missing" THEN default ELSE v

\* The try block of import_json_uploader on the uploaded content f, from its
\* last statement to its first: the session it leaves and the message shown.
Imported(ss, msg) == [ss |-> ss, msg |-> msg]

\* extras = data.get("extras", {}); the loop over extras.items()
import_extras(ss, extras) ==
    IF extras.t # "dict" THEN Imported(ss, "failed")
    ELSE Imported(ApplyExtras(ss, extras.m, DOMAIN extras.m), "success")

\* st.session_state.auth_date = <the date parsed>
import_date(ss, f, dt) ==
    IF dt.t = "ValueError" THEN Imported(ss, "failed")
    ELSE import_extras([ss EXCEPT !.auth_date = dt], Get(f.extras, PyDict(<<>>)))

\* date.fromisoformat(ad) if ad else None
import_auth_date(ss, f, ad) ==
    import_date(ss, f, IF ~Truthy(ad) THEN None
                       ELSE IF ad.t = "str" THEN fromisoformat(ad.s)
                       ELSE ValueError)

\* lists.setdefault(page, []) for each page; st.session_state.data = lists
import_lists(ss, f, lists) ==
    IF lists.t # "dict" THEN Imported(ss, "failed")
    ELSE import_auth_date([ss EXCEPT !.data = FillPages(lists.m, Len(PAGES))], f,
                          Get(f.auth_date, None))

import_json(ss, f) ==
    IF f.top = "badjson" THEN Imported(ss, "failed")
    ELSE IF f.top # "dict" THEN Imported(ss, "invalid")
    ELSE import_lists(ss, f, Get(f.lists, PyDict(<<>>)))

-----------------------------------------------------------------------------
(* Navigation and the helpers of the manual lists.                         *)

Max(a, b) == IF a >= b THEN a ELSE b

Min(a, b) == IF a <= b THEN a ELSE b

\* _go_prev_page (indices are 1-based here, 0-based in the source)
go_prev_page(ss) ==
    LET new_page == PAGES[Max(1, PagesIndex(ss.page) - 1)]
    IN  [ss EXCEPT !.page = new_page, !.nav = new_page]

\* _go_next_page
go_next_page(ss) ==
    LET new_page == PAGES[Min(Len(PAGES), PagesIndex(ss.page) + 1)]
    IN  [ss EXCEPT !.page = new_page, !.nav = new_page]

\* A Python list index idx on a list of length n: the 1-based position it
\* addresses (negative indices count from the end), or 0 for IndexError.
ListPos(n, idx) ==
    IF idx >= 0 /\ idx < n THEN idx + 1
    ELSE IF idx < 0 /\ idx >= -n THEN n + idx + 1
    ELSE 0

\* pop() without the index: the last task goes
RemoveAt_last(seq, k) == SubSeq(seq, 1, Len(seq) - 1)

RemoveAt(seq, k) == SubSeq(seq, 1, k - 1) \o SubSeq(seq, k + 1, Len(seq))

\* the outcome of a helper call: the session and the exception raised
Outcome(ss, exc) == [ss |-> ss, exc |-> exc]

\* _toggle_task
toggle_task(ss, p, idx, value) ==
    IF p \notin DOMAIN ss.data THEN Outcome(ss, "KeyError")
    ELSE LET k == ListPos(Len(ss.data[p]), idx)
         IN  IF k = 0 THEN Outcome(ss, "IndexError")
             ELSE Outcome([ss EXCEPT !.data[p][k].done = value], "none")

\* _update_notes
update_notes(ss, p, idx, value) ==
    IF p \notin DOMAIN ss.data THEN Outcome(ss, "KeyError")
    ELSE LET k == ListPos(Len(ss.data[p]), idx)
         IN  IF k = 0 THEN Outcome(ss, "IndexError")
             ELSE Outcome([ss EXCEPT !.data[p][k].notes = value], "none")

\* _delete_task
delete_task(ss, p, idx) ==
    IF p \notin DOMAIN ss.data THEN Outcome(ss, "KeyError")
    ELSE LET k == ListPos(Len(ss.data[p]), idx)
         IN  IF k = 0 THEN Outcome(ss, "IndexError")
             ELSE Outcome([ss EXCEPT !.data[p] = RemoveAt(@, k)], "none")

-----------------------------------------------------------------------------
(* One run of main().  ev is the widget the user acted on in this run.     *)

NoEvent == [k |-> "none"]

\* the branch of one page calling the section of another
section_tasks_swapped(p, ad) ==
    IF p = "Ferias" THEN ferias_tasks(ad)
    ELSE IF p = "Passaporte e Visto" THEN passaporte_tasks(ad)
    ELSE IF p = "INSPSAU (Inspecao de Saude)" THEN inspsau_tasks(ad)
    ELSE IF p = "Pagamento" THEN raire_tasks(ad)
    ELSE IF p = "RAIRE" THEN raire_tasks(ad)
    ELSE <<>>

\* the tasks render_tasks shows for a page: the if/elif chain of the source
section_tasks(p, ad) ==
    IF p = "Ferias" THEN ferias_tasks(ad)
    ELSE IF p = "Passaporte e Visto" THEN passaporte_tasks(ad)
    ELSE IF p = "INSPSAU (Inspecao de Saude)" THEN inspsau_tasks(ad)
    ELSE IF p = "Pagamento" THEN pagamento_tasks(ad)
    ELSE IF p = "RAIRE" THEN raire_tasks(ad)
    ELSE <<>>

\* render_<x>_section: each checkbox shows the flag; the one the user clicked
\* returns the new value, and a value that differs from the flag is stored.
\* The result: the session and the (done, total) the section returns.
section_result(ss, tasks) == [ss |-> ss, counts |-> CountFlags(ss, tasks)]

render_section(ss, tasks, ev) ==
    section_result(IF /\ ev.k = "check"
                      /\ \E i \in 1..Len(tasks) : tasks[i].key = ev.key
                      /\ ev.val # get_flag(ss, ev.key)
                   THEN set_flag(ss, ev.key, ev.val)
                   ELSE ss,
                   tasks)

\* prog = (done / total) if total else 0.0
render_progress(manual, sec) ==
    [ss   |-> sec.ss,
     prog |-> Ratio(CountDone(manual) + sec.counts[1], Len(manual) + sec.counts[2])]

\* the if/elif chain of render_tasks on the page
render_page(ss, ev) ==
    render_progress(ss.data[ss.page],
                    render_section(ss, section_tasks(ss.page, ss.auth_date), ev))

\* render_tasks(page) up to the progress bar; _get_tasks(page) comes first
render_tasks(ss, ev) == render_page([ss EXCEPT !.data = SetDefault(@, ss.page)], ev)

NoProg == <<0, 0>>

View(overall, prog, msg, exc) ==
    [overall |-> overall, prog |-> prog, msg |-> msg, exc |-> exc]

\* main(), from its last statement to its first: the session it leaves, what
\* it shows, and whether it asks for a rerun
Ran(ss, shown, rerun) == [ss |-> ss, view |-> shown, rerun |-> rerun]

\* the two buttons at the end of render_tasks
main_buttons(rt, overall, msg, ev) ==
    IF rt.ss.page \notin PageSet
    THEN Ran(rt.ss, View(overall, rt.prog, msg, "ValueError"), FALSE)
    ELSE IF ev.k = "prev" /\ PagesIndex(rt.ss.page) # 1
    THEN Ran(go_prev_page(rt.ss), View(overall, rt.prog, msg, "none"), TRUE)
    ELSE IF ev.k = "next" /\ PagesIndex(rt.ss.page) # Len(PAGES)
    THEN Ran(go_next_page(rt.ss), View(overall, rt.prog, msg, "none"), TRUE)
    ELSE Ran(rt.ss, View(overall, rt.prog, msg, "none"), FALSE)

\* render_tasks(st.session_state.page)
main_tasks(imp, overall, ev) ==
    main_buttons(render_tasks(imp.ss, ev), overall, imp.msg, ev)

\* export_json_button(); import_json_uploader()
main_import(ss, overall, file, ev) ==
    main_tasks(IF file = None THEN Imported(ss, "none") ELSE import_json(ss, file),
               overall, ev)

\* nav_index = PAGES.index(page); the radio; st.session_state.page = selected
main_sidebar(ss, overall, file, ev) ==
    IF ss.page \notin PageSet
    THEN Ran(ss, View(overall, NoProg, "none", "ValueError"), FALSE)
    ELSE main_import([ss EXCEPT !.page = IF ev.k = "radio" THEN ev.p ELSE @],
                     overall, file, ev)

\* overall = _overall_progress(), which fills in the lists of the pages
main_overall(ss, file, ev) ==
    main_sidebar([ss EXCEPT !.data = FillPages(@, Len(PAGES))],
                 overall_progress(ss), file, ev)

\* st.session_state.auth_date = st.date_input(...)
main(ss, file, ev) ==
    main_overall([ss EXCEPT !.auth_date = IF ev.k = "date" THEN ev.d ELSE @], file, ev)

RECURSIVE interact(_, _, _)
\* st.rerun(): the script runs again, with no widget acted on
rerun_if_asked(r, file) ==
    IF r.rerun THEN interact(r.ss, file, NoEvent) ELSE r

\* a user interaction: the run it triggers, and the runs st.rerun() adds
interact(ss, file, ev) == rerun_if_asked(main(ss, file, ev), file)

-----------------------------------------------------------------------------
(* The inputs explored.                                                    *)

\* the checkboxes clicked are those of the first MaxTogglePos tasks of a page
MaxTogglePos == 1

\* the helpers are called with indices -(MaxIdx+1) .. MaxIdx
MaxIdx == 2

\* the pages whose checkboxes are clicked
TogglePages == {"RAIRE"}

\* the category the helpers are called on
HelperPages == {"RAIRE"}

TA == [title |-> "A", done |-> FALSE, notes |-> ""]

TB == [title |-> "B", done |-> TRUE, notes |-> ""]

L1 == PyDict("RAIRE" :> <<TA, TB>>)

\* 2 of 4 done on one page, 1 of 1 on another, and "Ferias", a category
\* that is no page of PAGES
L2 == PyDict(("Antes da Missao" :> <<TA, TB, TB, TA>>) @@ ("Pagamento" :> <<TB>>)
               @@ ("Ferias" :> <<TB>>))

\* a flag of a task no page shows, a flag of a page, and an unknown key with null
E1 == PyDict((FlagName(FeriasKey(1)) :> PyBool(TRUE)) @@ (FlagName(PassKey(1)) :> PyBool(TRUE))
               @@ (FlagName(UNKNOWN_KEY) :> None))

E3 == PyDict("page" :> PyStr("Ferias"))

File(lists, ad, extras) == [top |-> "dict", lists |-> lists, auth_date |-> ad, extras |-> extras]

BadJson == [top |-> "badjson"]

NotADict == [top |-> "list"]

IsoD1 == PyStr(<<"2", "0", "2", "5", "-", "0", "6", "-", "0", "1">>)

\* 30 February
IsoBad == PyStr(<<"2", "0", "2", "5", "-", "0", "2", "-", "3", "0">>)

\* well-formed: lists, a date, flags
F1 == File(L1, IsoD1, E1)

\* well-formed: no auth_date, no extras
F2 == File(L2, Missing, Missing)

\* auth_date is no calendar date
F4 == File(L2, IsoBad, E1)

\* lists is an array
F5 == File(PyList, IsoD1, E1)

\* extras is an array
F6 == File(L1, IsoD1, PyList)

\* well-formed, with a key in extras that is no flag
F7 == File(Missing, None, E3)

\* the session after the user picked D1 and ticked the first RAIRE task
SessionTicked ==
    [InitState EXCEPT !.auth_date = D1, !.page = "RAIRE",
                      !.flags = FlagName(RaireKey(1)) :> PyBool(TRUE)]

\* the file the user gets by exporting then
FExport == json_loads(export_json(SessionTicked))

Files == {NotADict, F1, F2, F4, F6, F7, FExport}

-----------------------------------------------------------------------------
(* The program as the user drives it: every interaction is a run of main(). *)

Init ==
    /\ data = InitState.data
    /\ auth_date = InitState.auth_date
    /\ flags = InitState.flags
    /\ page = InitState.page
    /\ nav = InitState.nav
    /\ up = None
    /\ view = View(<<0, 1>>, <<0, 1>>, "none", "none")

\* the session variables take the values of ss
Store(ss) ==
    /\ data' = ss.data
    /\ auth_date' = ss.auth_date
    /\ flags' = ss.flags
    /\ page' = ss.page
    /\ nav' = ss.nav

\* a run of main() on the user's action ev, with file in the uploader
Run(file, ev) ==
    \E r \in {interact(Session, file, ev)} :
        /\ Store(r.ss)
        /\ up' = file
        /\ view' = r.view

\* the widgets below the sidebar header exist only if the last run got there
Rendered == view.exc # "ValueError"

\* the user picks a date (or clears it) in st.date_input
PickDate(d) == Run(up, [k |-> "date", d |-> d])

\* the user selects a page in the sidebar
SelectPage(p) == Rendered /\ Run(up, [k |-> "radio", p |-> p])

\* the user drops a file on the uploader
Upload(f) == Rendered /\ Run(f, NoEvent)

\* the user removes the file from the uploader
RemoveFile == Rendered /\ up # None /\ Run(None, NoEvent)

\* the user clicks the checkbox of the task at position i of the page shown
ClickCheckbox(i) ==
    /\ Rendered
    /\ page \in TogglePages
    /\ i <= Len(section_tasks(page, auth_date))
    /\ LET key == section_tasks(page, auth_date)[i].key
       IN  Run(up, [k |-> "check", key |-> key, val |-> ~get_flag(Session, key)])

\* the buttons under the page; a disabled button cannot be clicked
ClickPrev == Rendered /\ PagesIndex(page) # 1 /\ Run(up, [k |-> "prev"])

ClickNext == Rendered /\ PagesIndex(page) # Len(PAGES) /\ Run(up, [k |-> "next"])

\* a run that no state-changing widget triggered (a table button, a download)
Rerun == Run(up, NoEvent)

Next ==
    \/ \E d \in Dates \cup {None} : PickDate(d)
    \/ \E p \in PageSet : SelectPage(p)
    \/ \E f \in Files : Upload(f)
    \/ RemoveFile
    \/ \E i \in 1..MaxTogglePos : ClickCheckbox(i)
    \/ ClickPrev
    \/ ClickNext
    \/ Rerun

Spec == Init /\ [][Next]_vars

-----------------------------------------------------------------------------
(* The functions of the module called one at a time, in any order: the     *)
(* store of the manual lists, the date and the flags under its operations. *)

\* the outcome of a call: the session, the message shown, the exception raised
Called(ss, msg, exc) ==
    /\ Store(ss)
    /\ view' = [view EXCEPT !.msg = msg, !.exc = exc]
    /\ UNCHANGED up

\* st.session_state.auth_date = <the date of the date input>
AssignDate(d) == Called([Session EXCEPT !.auth_date = d], "none", "none")

\* _set_flag(key, val), as the sections call it (checked differs from the flag)
SetFlag(key, val) ==
    /\ val # get_flag(Session, key)
    /\ Called(set_flag(Session, key, val), "none", "none")

ToggleTask(p, idx, value) ==
    LET out == toggle_task(Session, p, idx, value) IN Called(out.ss, "none", out.exc)

UpdateNotes(p, idx, value) ==
    LET out == update_notes(Session, p, idx, value) IN Called(out.ss, "none", out.exc)

DeleteTask(p, idx) ==
    LET out == delete_task(Session, p, idx) IN Called(out.ss, "none", out.exc)

\* import_json_uploader() with f in the uploader
Import(f) ==
    LET out == import_json(Session, f) IN Called(out.ss, out.msg, "none")

IdxRange == (-(MaxIdx + 1))..MaxIdx

\* the keys _set_flag is called with
CallKeys == {RaireKey(i) : i \in 1..MaxTogglePos}

NextCalls ==
    \/ \E d \in Dates \cup {None} : AssignDate(d)
    \/ \E key \in CallKeys, val \in BOOLEAN : SetFlag(key, val)
    \/ \E p \in HelperPages, idx \in IdxRange, value \in BOOLEAN : ToggleTask(p, idx, value)
    \/ \E p \in HelperPages, idx \in IdxRange : UpdateNotes(p, idx, "n")
    \/ \E p \in HelperPages, idx \in IdxRange : DeleteTask(p, idx)
    \/ \E f \in Files : Import(f)

SpecCalls == Init /\ [][NextCalls]_vars

-----------------------------------------------------------------------------
(* The resolvers and the progress functions on their own, over every day   *)
(* of the years below.                                                     *)

Years == {2024, 2025, 2100}

WideDates ==
    {dt \in {MkDate(y, m, d) : y \in Years, m \in 1..12, d \in 1..31} :
        dt.day <= days_in_month(dt.year, dt.month)}

Cats == {"ferias", "passaporte", "inspsau", "pagamento", "raire"}

\* the call _get_<c>_tasks(ad)
get_tasks_of(c, ad) ==
    CASE c = "ferias"     -> get_ferias_tasks(ad)
      [] c = "passaporte" -> get_passaporte_tasks(ad)
      [] c = "inspsau"    -> get_inspsau_tasks(ad)
      [] c = "pagamento"  -> get_pagamento_tasks(ad)
      [] c = "raire"      -> get_raire_tasks(ad)

\* the call _<c>_progress(ad)
progress_of(c, ss, ad) ==
    CASE c = "ferias"     -> ferias_progress(ss, ad)
      [] c = "passaporte" -> passaporte_progress(ss, ad)
      [] c = "inspsau"    -> inspsau_progress(ss, ad)
      [] c = "pagamento"  -> pagamento_progress(ss, ad)
      [] c = "raire"      -> raire_progress(ss, ad)

InitResolve ==
    /\ data = InitState.data
    /\ auth_date \in WideDates \cup {None}
    /\ flags \in {InitState.flags, E1.m}
    /\ page = InitState.page
    /\ nav = InitState.nav
    /\ up = None
    /\ view = View(<<0, 1>>, <<0, 1>>, "none", "none")

\* a call of the resolver and of the progress function of catalog c
Resolve(c) ==
    /\ view' = [cat    |-> c,
                tasks  |-> SubSeq(get_tasks_of(c, auth_date), 1,
                                  Len(get_tasks_of(c, auth_date))),
                counts |-> progress_of(c, Session, auth_date)]
    /\ UNCHANGED <<data, auth_date, flags, page, nav, up>>

NextResolve == \E c \in Cats : Resolve(c)

SpecResolve == InitResolve /\ [][NextResolve]_vars

-----------------------------------------------------------------------------
(* Properties of the resolvers (checked under SpecResolve).                *)

\* a resolver has been called and its result is on view
Resolved == "cat" \in DOMAIN view

\* the key prefix and the offsets table of each catalog, as the text names them
CategoryPrefix(c) ==
    CASE c = "ferias"     -> "ferias"
      [] c = "passaporte" -> "pass"
      [] c = "inspsau"    -> "insp"
      [] c = "pagamento"  -> "pay"
      [] c = "raire"      -> "raire"

OffsetsOf(c) ==
    CASE c = "ferias"     -> FERIAS_OFFSETS
      [] c = "passaporte" -> PASSAPORTE_DEFS
      [] c = "inspsau"    -> INSPSAU_DEFS
      [] c = "pagamento"  -> PAGAMENTO_DEFS
      [] c = "raire"      -> RAIRE_DEFS

\* positions written with two digits
TwoDigits ==
    <<"01", "02", "03", "04", "05", "06", "07", "08", "09", "10", "11", "12",
      "13", "14", "15", "16", "17", "18", "19", "20", "21", "22", "23">>

\* the number of days from 1970-01-01 to a civil date, by the era formula
DaysFromCivil(dt) ==
    LET y   == IF dt.month <= 2 THEN dt.year - 1 ELSE dt.year
        era == y \div 400
        yoe == y - era * 400
        mp  == IF dt.month > 2 THEN dt.month - 3 ELSE dt.month + 9
        doy == ((153 * mp + 2) \div 5) + dt.day - 1
        doe == yoe * 365 + (yoe \div 4) - (yoe \div 100) + doy
    IN  era * 146097 + doe - 719468

IsCalendarDate(dt) ==
    /\ dt.t = "date"
    /\ dt.month \in 1..12
    /\ dt.day >= 1
    /\ dt.day <= (CASE dt.month \in {4, 6, 9, 11} -> 30
                    [] dt.month = 2 ->
                         IF dt.year % 400 = 0 \/ (dt.year % 4 = 0 /\ dt.year % 100 # 0)
                         THEN 29 ELSE 28
                    [] OTHER -> 31)

\* C4: the key of the resolved task at position i is the category prefix, a
\* hyphen, and i written with at least two digits, in every catalog.
C4_KeyFormat ==
    Resolved =>
        \A i \in 1..Len(view.tasks) :
            view.tasks[i].key = CategoryPrefix(view.cat) \o "-" \o TwoDigits[i]

\* C5: with an anchor date d the resolver returns one task per table entry,
\* in table order, and task i has deadline d minus offset(i) calendar days:
\* after d for a negative offset, before d for a positive one.
C5_Deadlines ==
    (Resolved /\ auth_date # None) =>
        /\ Len(view.tasks) = Len(OffsetsOf(view.cat))
        /\ \A i \in 1..Len(view.tasks) :
              LET off == OffsetsOf(view.cat)[i]
                  dl  == view.tasks[i].deadline
              IN  /\ view.tasks[i].title = i
                  /\ IsCalendarDate(dl)
                  /\ DaysFromCivil(dl) = DaysFromCivil(auth_date) - off
                  /\ off < 0 => DaysFromCivil(dl) > DaysFromCivil(auth_date)
                  /\ off > 0 => DaysFromCivil(dl) < DaysFromCivil(auth_date)
        /\ (auth_date = MkDate(2025, 6, 1) /\ view.cat = "raire") =>
              view.tasks[2].deadline = MkDate(2025, 6, 11)
        /\ (auth_date = MkDate(2025, 6, 1) /\ view.cat = "ferias") =>
              /\ view.tasks[1].deadline = MkDate(2025, 2, 21)
              /\ view.tasks[2].deadline = MkDate(2025, 5, 2)
              /\ view.tasks[3].deadline = MkDate(2025, 5, 31)

\* the second RAIRE task (offset -10) resolved for 2025-06-01
C5_Witness ==
    /\ Resolved
    /\ auth_date = MkDate(2025, 6, 1)
    /\ view.cat = "raire"
    /\ Len(view.tasks) = 5
    /\ view.tasks[2].deadline = MkDate(2025, 6, 11)

\* the keys of catalog c resolved for date ad
KeySet(c, ad) == {get_tasks_of(c, ad)[i].key : i \in 1..Len(get_tasks_of(c, ad))}

\* the keys of each catalog resolved for 2025-06-01, in order
ReferenceKeys ==
    [c \in Cats |->
        [i \in 1..Len(OffsetsOf(c)) |-> get_tasks_of(c, MkDate(2025, 6, 1))[i].key]] @@ <<>>

\* C6: the keys of the five resolvers are pairwise distinct, within a catalog
\* and across catalogs, and the key at a position is the same for every date.
C6_KeysDistinctStable ==
    (Resolved /\ auth_date # None) =>
        \A shown \in {{view.tasks[i].key : i \in 1..Len(view.tasks)}} :
            /\ Cardinality(shown) = Len(OffsetsOf(view.cat))
            /\ \A c \in Cats \ {view.cat} : KeySet(c, auth_date) \cap shown = {}
            /\ \A i \in 1..Len(view.tasks) :
                  view.tasks[i].key = ReferenceKeys[view.cat][i]

\* the passport keys resolved for a date of another year
C6_Witness ==
    /\ Resolved
    /\ auth_date = MkDate(2100, 3, 1)
    /\ view.cat = "passaporte"
    /\ Len(view.tasks) = 23
    /\ view.tasks[23].key = "pass-23"

\* C7: with no anchor date each resolver returns the empty sequence, each
\* progress function returns (0, 0), and the call changes no flag and no list.
C7_NoDate ==
    /\ [](Resolved /\ auth_date = None => view.tasks = <<>> /\ view.counts = <<0, 0>>)
    /\ [][(\E c \in Cats : Resolve(c)) => UNCHANGED <<data, flags, auth_date>>]_vars

\* a progress function called with no date while flags are set
C7_Witness ==
    /\ Resolved
    /\ auth_date = None
    /\ flags = E1.m
    /\ view.cat = "passaporte"
    /\ view.counts = <<0, 0>>

-----------------------------------------------------------------------------
(* Properties of import and export.                                        *)

\* the session after the step
SessionNext == [data |-> data', auth_date |-> auth_date', flags |-> flags',
                page |-> page', nav |-> nav']

\* the step puts a new file in the uploader
NewUpload == up' # up /\ up' # None

\* the anchor date a snapshot carries
SnapshotDate(f) ==
    LET ad == Get(f.auth_date, None)
    IN  IF Truthy(ad) THEN fromisoformat(ad.s) ELSE None

\* the value of the flag of key k that a snapshot carries
SnapshotFlag(f, k) ==
    LET extras == Get(f.extras, PyDict(<<>>)).m
    IN  FlagName(k) \in DOMAIN extras /\ Truthy(extras[FlagName(k)])

\* C1: when import_json_uploader rejects a payload, the manual lists, the
\* anchor date and every flag are what they were before the import.
C1_ImportAtomic ==
    [][(NewUpload /\ view'.msg \in {"invalid", "failed"})
          => UNCHANGED <<data, auth_date, flags>>]_vars

\* C2: after a successful import the anchor date, the manual lists and the
\* whole set of flags are those of the snapshot: a flag that the snapshot's
\* extras do not carry reads false.
C2_ImportReplaces ==
    [][(NewUpload /\ view'.msg = "success")
          => /\ auth_date' = SnapshotDate(up')
             /\ \A c \in DOMAIN Get(up'.lists, PyDict(<<>>)).m :
                   data'[c] = Get(up'.lists, PyDict(<<>>)).m[c]
             /\ \A k \in KeyUniverse :
                   get_flag(SessionNext, k) = SnapshotFlag(up', k)]_vars

\* two sessions show the same: date, lists in order, every flag as _get_flag reads it
SameStore(a, b) ==
    /\ a.auth_date = b.auth_date
    /\ DOMAIN a.data = DOMAIN b.data
    /\ \A c \in DOMAIN a.data : a.data[c] = b.data[c]
    /\ \A k \in KeyUniverse : get_flag(a, k) = get_flag(b, k)

-----------------------------------------------------------------------------
(* Properties of the progress values (checked under Spec).                 *)

RECURSIVE SumOver(_, _)
SumOver(f, S) ==
    IF S = {} THEN 0
    ELSE LET x == CHOOSE y \in S : TRUE IN f[x] + SumOver(f, S \ {x})

\* the catalog whose tasks a page of PAGES shows
PageCatalog(p) ==
    CASE p = "Passaporte e Visto"          -> {PassKey(i) : i \in 1..Len(PASSAPORTE_DEFS)}
      [] p = "INSPSAU (Inspecao de Saude)" -> {InspKey(i) : i \in 1..Len(INSPSAU_DEFS)}
      [] p = "Pagamento"                   -> {PayKey(i) : i \in 1..Len(PAGAMENTO_DEFS)}
      [] p = "RAIRE"                       -> {RaireKey(i) : i \in 1..Len(RAIRE_DEFS)}
      [] OTHER                             -> {}

\* the keys among K whose flag reads true
Ticked(K) == {k \in K : get_flag(Session, k)}

ManualDone(p) == Cardinality({i \in 1..Len(data[p]) : data[p][i].done})

\* <<done, total>> of a page: its manual list, and its catalog when a date is set
PageCounts(p) ==
    <<ManualDone(p) + (IF auth_date = None THEN 0 ELSE Cardinality(Ticked(PageCatalog(p)))),
      Len(data[p]) + (IF auth_date = None THEN 0 ELSE Cardinality(PageCatalog(p)))>>

\* <<done, total>> overall: the manual lists of the pages, and the five
\* catalogs when a date is set
OverallCounts ==
    <<SumOver([p \in PageSet |-> ManualDone(p)], PageSet)
        + (IF auth_date = None THEN 0 ELSE Cardinality(Ticked(CatalogKeys))),
      SumOver([p \in PageSet |-> Len(data[p])], PageSet)
        + (IF auth_date = None THEN 0
           ELSE Len(FERIAS_OFFSETS) + Len(PASSAPORTE_DEFS) + Len(INSPSAU_DEFS)
                  + Len(PAGAMENTO_DEFS) + Len(RAIRE_DEFS))>>

\* r is the value of done / total, and 0 when total is 0
IsRatioOf(r, c) ==
    /\ 0 <= c[1] /\ c[1] <= c[2]
    /\ r[2] > 0 /\ 0 <= r[1] /\ r[1] <= r[2]
    /\ IF c[2] = 0 THEN r = <<0, 1>> ELSE r[1] * c[2] = c[1] * r[2]

\* the progress render_tasks shows for page p in the current state
PageProgress(p) == render_tasks([Session EXCEPT !.page = p], NoEvent).prog

\* C8: the overall ratio and every page's ratio equal done/total with
\* 0 <= done <= total, lie in [0,1], and are exactly 0 when total is 0
\* (2 of 4 and 1 of 1 give 3/5; nothing to count gives 0).
C8_RatioRange ==
    /\ IsRatioOf(overall_progress(Session), OverallCounts)
    /\ \A p \in PageSet : IsRatioOf(PageProgress(p), PageCounts(p))
    /\ view.overall[2] > 0 /\ 0 <= view.overall[1] /\ view.overall[1] <= view.overall[2]
    /\ view.prog # NoProg =>
          view.prog[2] > 0 /\ 0 <= view.prog[1] /\ view.prog[1] <= view.prog[2]
    /\ OverallCounts = <<3, 5>> => overall_progress(Session) = <<3, 5>>
    /\ OverallCounts[2] = 0 => overall_progress(Session) = <<0, 1>>

\* the lists of F2 (2 of 4, 1 of 1) with no date: 3/5 is on the screen
C8_Witness ==
    /\ auth_date = None
    /\ Len(data["Antes da Missao"]) = 4
    /\ OverallCounts = <<3, 5>>
    /\ view.overall = <<3, 5>>

C9_WitnessDate ==
    /\ auth_date # None
    /\ get_flag(Session, FeriasKey(1)) /\ get_flag(Session, PassKey(1))
    /\ get_flag(Session, RaireKey(1))
    /\ view.overall = Ratio(4, 47)

\* C10: for every page of PAGES the progress shown is
\* (manual_done + auto_done) / (manual_total + auto_total), the auto counts
\* being those of the page's own catalog and 0 when no date is set.
C10_PageProgress ==
    /\ \A p \in PageSet : PageProgress(p) = Ratio(PageCounts(p)[1], PageCounts(p)[2])
    /\ view.exc = "none" =>
          /\ page \in PageSet
          /\ IsRatioOf(view.prog, PageCounts(page))

\* the RAIRE page with two manual tasks (one done) and one of five boxes ticked
C10_Witness ==
    /\ page = "RAIRE"
    /\ auth_date = D1
    /\ data["RAIRE"] = <<TA, TB>>
    /\ get_flag(Session, RaireKey(1))
    /\ view.prog = <<2, 7>>

-----------------------------------------------------------------------------
(* Monotonicity of the ratios (checked under SpecCalls).                   *)

\* the fraction a is smaller than the fraction b
Less(a, b) == a[1] * b[2] < b[1] * a[2]

\* the progress render_tasks shows for page p in session ss
PageProgressOf(ss, p) == render_tasks([ss EXCEPT !.page = p], NoEvent).prog

\* the ratios of the scopes that count catalog key k grow from session a to b
FlagScopesGrow(a, b, k) ==
    /\ Less(overall_progress(a), overall_progress(b))
    /\ \A p \in PageSet :
          k \in PageCatalog(p) => Less(PageProgressOf(a, p), PageProgressOf(b, p))

\* the ratios of the scopes that count the manual tasks of page p grow from a to b
ManualScopesGrow(a, b, p) ==
    /\ Less(overall_progress(a), overall_progress(b))
    /\ Less(PageProgressOf(a, p), PageProgressOf(b, p))

SameRatios(a, b) ==
    /\ overall_progress(a) = overall_progress(b)
    /\ \A p \in PageSet : PageProgressOf(a, p) = PageProgressOf(b, p)

\* C11: setting one flag, or the done field of one manual task, from false
\* to true strictly increases the ratio of every scope that counts the task,
\* setting it from true to false strictly decreases it, and true -> false ->
\* true gives back the original ratios.
C11_Monotone ==
    /\ auth_date # None =>
          \A k \in CatalogKeys :
             IF get_flag(Session, k)
             THEN /\ FlagScopesGrow(set_flag(Session, k, FALSE), Session, k)
                  /\ SameRatios(set_flag(set_flag(Session, k, FALSE), k, TRUE), Session)
             ELSE FlagScopesGrow(Session, set_flag(Session, k, TRUE), k)
    /\ \A p \in PageSet : \A i \in 1..Len(data[p]) :
          IF data[p][i].done
          THEN /\ ManualScopesGrow(toggle_task(Session, p, i - 1, FALSE).ss, Session, p)
               /\ SameRatios(toggle_task(toggle_task(Session, p, i - 1, FALSE).ss,
                                         p, i - 1, TRUE).ss, Session)
          ELSE ManualScopesGrow(Session, toggle_task(Session, p, i - 1, TRUE).ss, p)

\* a flag was set and a manual task toggled to done, with a date
C11_Witness ==
    /\ auth_date = D1
    /\ get_flag(Session, RaireKey(1))
    /\ Len(data["RAIRE"]) = 2
    /\ data["RAIRE"][1].done /\ data["RAIRE"][1].title = "A"
    /\ overall_progress(Session) = Ratio(3, 47)

-----------------------------------------------------------------------------
(* Properties of a run that imports (checked under Spec).                  *)

\* the lists mapping of the file in the uploader
UploadedLists == Get(up.lists, PyDict(<<>>)).m

\* the run that led here read a file and reported success
ImportSucceeded == up # None /\ view.msg = "success"

\* C12: after a successful import every page of PAGES has a list: the one of
\* the snapshot, or the empty one if the snapshot has none for the page; a
\* snapshot with auth_date missing or null is accepted and leaves no date set.
C12_ImportFillsPages ==
    /\ ImportSucceeded =>
          /\ \A p \in PageSet :
                /\ p \in DOMAIN data
                /\ data[p] = IF p \in DOMAIN UploadedLists THEN UploadedLists[p] ELSE <<>>
          /\ up.auth_date \in {Missing, None} => auth_date = None
    /\ \A f \in Files :
          (/\ f.top = "dict"
           /\ f.auth_date \in {Missing, None}
           /\ Get(f.lists, PyDict(<<>>)).t = "dict"
           /\ Get(f.extras, PyDict(<<>>)).t = "dict")
              => /\ import_json(Session, f).msg = "success"
                 /\ import_json(Session, f).ss.auth_date = None

\* a snapshot with two pages and no auth_date was imported over a date
C12_Witness ==
    /\ ImportSucceeded
    /\ up = F2
    /\ auth_date = None
    /\ data["Pagamento"] = <<TB>>
    /\ data["RAIRE"] = <<>>
    /\ FlagName(PassKey(1)) \in DOMAIN flags

\* every list there was is still there, unchanged
ListsKept == \A c \in DOMAIN data : c \in DOMAIN data' /\ data'[c] = data[c]

\* the user changed the date, navigated, exported or reran: no checkbox was
\* clicked and nothing was put in or taken from the uploader
NoToggleNoUpload == up' = up /\ ~(\E i \in 1..MaxTogglePos : ClickCheckbox(i))

\* C13: a flag keeps its value until the user toggles it or imports: a date
\* change, a navigation or an export leaves every flag and every manual list
\* unchanged.
C13_FlagsPersist == [][NoToggleNoUpload => (flags' = flags /\ ListsKept)]_vars

-----------------------------------------------------------------------------
(* Properties of the list helpers (checked under SpecCalls).               *)

\* every list but that of page p is the same in sessions a and b
OtherListsSame(a, b, p) ==
    /\ DOMAIN a.data = DOMAIN b.data
    /\ \A c \in DOMAIN a.data \ {p} : a.data[c] = b.data[c]

\* out is the outcome of removing index k (0-based) from the list of page p
RemovedExactly(out, p, k) ==
    /\ out.exc = "none"
    /\ Len(out.ss.data[p]) = Len(data[p]) - 1
    /\ \A j \in 0..(Len(data[p]) - 1) :
          /\ j < k => out.ss.data[p][j + 1] = data[p][j + 1]
          /\ j > k => out.ss.data[p][j] = data[p][j + 1]
    /\ OtherListsSame(out.ss, Session, p)
    /\ out.ss.flags = flags /\ out.ss.auth_date = auth_date

\* C14: _delete_task(page, k) with 0 <= k < length removes exactly the task
\* at index k: one task fewer, those before k unchanged, those after k moved
\* down by one, the lists of the other pages unchanged.
C14_DeleteExact ==
    \A p \in DOMAIN data : \A k \in 0..(Len(data[p]) - 1) :
        RemovedExactly(delete_task(Session, p, k), p, k)

\* index 0 of the two imported RAIRE tasks was deleted
C14_Witness ==
    /\ data["RAIRE"] = <<TB>>
    /\ view.exc = "none"
    /\ RemovedExactly(delete_task(Session, "RAIRE", 0), "RAIRE", 0)

\* the helper call failed and left the session as it was
FailedUntouched(out) == out.exc # "none" /\ out.ss = Session

\* C15: _delete_task, _toggle_task and _update_notes called with an index
\* outside 0..length-1, negative ones included, fail with an error and
\* neither remove nor modify any task.
C15_OutOfRangeFatal ==
    \A p \in DOMAIN data : \A idx \in IdxRange :
        idx \notin 0..(Len(data[p]) - 1) =>
            /\ FailedUntouched(delete_task(Session, p, idx))
            /\ \A value \in BOOLEAN : FailedUntouched(toggle_task(Session, p, idx, value))
            /\ FailedUntouched(update_notes(Session, p, idx, "n"))

-----------------------------------------------------------------------------
(* Properties of successive runs (checked under Spec).                     *)

\* the user picked a date in this step
DatePicked == \E d \in Dates \cup {None} : PickDate(d)

\* C16: an import is applied once: in a later interaction, with nothing new
\* in the uploader, the date the user picks is the date the session holds
\* afterwards, and any other interaction leaves the date as it was.
C16_ImportOnce ==
    [][up' = up =>
          /\ \A d \in Dates \cup {None} : PickDate(d) => auth_date' = d
          /\ ~DatePicked => auth_date' = auth_date]_vars

\* C17: when a run ends, the overall progress it displayed is done/total of
\* the store as the run leaves it (recomputed after a toggle or an import
\* has been written).
C17_OverallFresh == view.overall = overall_progress(Session)

-----------------------------------------------------------------------------
(* Overall progress against the pages (checked under Spec).                *)

\* <<done, total>> of what render_tasks shows on page p
ShownCounts(p) ==
    AddCounts(<<CountDone(data[p]), Len(data[p])>>,
              CountFlags(Session, section_tasks(p, auth_date)))

\* the keys of the checkboxes page p shows
ShownKeys(p) ==
    {section_tasks(p, auth_date)[i].key : i \in 1..Len(section_tasks(p, auth_date))}

\* the keys of the resolved tasks _overall_progress counts
CountedKeys == UNION {KeySet(c, auth_date) : c \in Cats}

\* C18: with a date set, every resolved task counted in the overall progress
\* is shown on exactly one page of PAGES, the overall done and total are the
\* sums of those of the pages, and all pages complete means overall complete.
C18_OverallMatchesPages ==
    auth_date # None =>
        /\ \A k \in CountedKeys : Cardinality({p \in PageSet : k \in ShownKeys(p)}) = 1
        /\ overall_counts(Session)[1] = SumOver([p \in PageSet |-> ShownCounts(p)[1]], PageSet)
        /\ overall_counts(Session)[2] = SumOver([p \in PageSet |-> ShownCounts(p)[2]], PageSet)

\* C19: after any sequence of previous, next, sidebar selections and imports
\* of well-formed snapshots the current page is a page of PAGES (an import
\* does not touch it); previous on the first page and next on the last leave
\* it, otherwise they move by one position.
C19_PageValid ==
    /\ page \in PageSet
    /\ page \in PageSet =>
          /\ PagesIndex(go_prev_page(Session).page)
                = IF PagesIndex(page) = 1 THEN 1 ELSE PagesIndex(page) - 1
          /\ PagesIndex(go_next_page(Session).page)
                = IF PagesIndex(page) = Len(PAGES) THEN Len(PAGES) ELSE PagesIndex(page) + 1

=============================================================================
